---- MODULE Spec2Model ----
(***************************************************************************)
(* The realtime signaling relay of src/src/webrtcSignaling.js (the current *)
(* setupWebRtcSignaling, lines 396-1285): Connection Tracker, Room Manager *)
(* (one instance per channel), Message Router, Heartbeat Monitor and the   *)
(* upgrade Gatekeeper, as one state machine.  Every action is one callback *)
(* of the single-threaded event loop, run to completion.                   *)
(***************************************************************************)
EXTENDS Integers, Sequences, FiniteSets, Bags, TLC

\* ------------------------------------------------------------------ bounds
\* Number of WebSocket objects the server creates in one behaviour.
NConn == 3
\* Heartbeat ticks counted per socket since it was last marked alive.
MaxTicks == 2
\* Number of upgrade requests that may wait on the token validator at once.
MaxPending == 2
\* Milliseconds Date.now() advances in one behaviour.
MaxClock == 2
\* Sockets the server creates in one behaviour of the smaller specifications.
FewConns == 2
\* Frames one client puts on the wire in one behaviour of SpecOrder.
MaxWire == 3

Conns == 1..NConn
NULL == "null"

\* The two endpoints (lines 1157, 1198): /ws/prep is the video channel.
Channels == {"video", "classroom"}

\* Room ids a client may put in a join frame: two that match ROOM_ID_REGEX,
\* one that does not, and the empty string (falsy).
ValidRoomIds == {"r1", "r2"}
RoomIdInputs == ValidRoomIds \cup {"bad id!", ""}

\* Source addresses getClientIP can yield.  "" is what a forwarded-for header
\* starting with a comma yields (line 634-635).
ForwardedInputs == {<<>>, <<"10.0.0.2">>, <<"", "10.0.0.2">>}
RemoteAddress == "10.0.0.1"

\* ------------------------------------------------------ program constants
\* CONFIG.MAX_VIDEO_PEERS (line 428).
MAX_VIDEO_PEERS == 2
\* CONFIG.MAX_CLASSROOM_PEERS (line 429) is 100 in the source; the model runs
\* the classroom manager with a cap the bounded set of sockets can reach.
MAX_CLASSROOM_PEERS == 2

\* CONFIG.MAX_MESSAGE_SIZE_BYTES (line 432), also the servers' maxPayload
\* (lines 911, 915), and CONFIG.MAX_SIGNAL_DATA_SIZE (line 450).
MAX_MESSAGE_SIZE_BYTES == 65536
MAX_SIGNAL_DATA_SIZE == 262144

\* CONFIG is a mutable object the setup function hands back to its caller
\* (line 1283).  The model explores three configurations, fixed at Init:
\*   "open"  : authentication off, the rate limiter switched off, quotas no
\*             socket of the model can reach (the shipped 10000 / 50 / 5000
\*             behave so), the shipped size limits;
\*   "tight" : authentication on, quotas and room limit small enough to bind;
\*   "relay" : authentication off, the rate limiter on with a window and a
\*             count small enough to bind, one room per channel, and a frame
\*             limit above the signal data limit.
TightTotal == 2
TightPerIP == 1
TightRooms == 1
TightWindow == 2
TightMessages == 2

ConfigOpen ==
  [ name |-> "open",
    AUTH_ENABLED |-> FALSE,
    ALLOWED_ORIGINS |-> {},
    RATE_LIMIT_ENABLED |-> FALSE,
    RATE_LIMIT_WINDOW_MS |-> TightWindow,
    RATE_LIMIT_MAX_MESSAGES |-> TightMessages,
    MAX_CONNECTIONS_TOTAL |-> NConn + 1,
    MAX_CONNECTIONS_PER_IP |-> NConn + 1,
    MAX_TOTAL_ROOMS |-> Cardinality(ValidRoomIds) + 1,
    MAX_MESSAGE_SIZE_BYTES |-> MAX_MESSAGE_SIZE_BYTES,
    MAX_SIGNAL_DATA_SIZE |-> MAX_SIGNAL_DATA_SIZE ]

ConfigTight ==
  [ name |-> "tight",
    AUTH_ENABLED |-> TRUE,
    ALLOWED_ORIGINS |-> {"https://app.example"},
    RATE_LIMIT_ENABLED |-> FALSE,
    RATE_LIMIT_WINDOW_MS |-> TightWindow,
    RATE_LIMIT_MAX_MESSAGES |-> TightMessages,
    MAX_CONNECTIONS_TOTAL |-> TightTotal,
    MAX_CONNECTIONS_PER_IP |-> TightPerIP,
    MAX_TOTAL_ROOMS |-> TightRooms,
    MAX_MESSAGE_SIZE_BYTES |-> MAX_MESSAGE_SIZE_BYTES,
    MAX_SIGNAL_DATA_SIZE |-> MAX_SIGNAL_DATA_SIZE ]

ConfigRelay ==
  [ name |-> "relay",
    AUTH_ENABLED |-> FALSE,
    ALLOWED_ORIGINS |-> {},
    RATE_LIMIT_ENABLED |-> TRUE,
    RATE_LIMIT_WINDOW_MS |-> TightWindow,
    RATE_LIMIT_MAX_MESSAGES |-> TightMessages,
    MAX_CONNECTIONS_TOTAL |-> NConn + 1,
    MAX_CONNECTIONS_PER_IP |-> NConn + 1,
    MAX_TOTAL_ROOMS |-> TightRooms,
    MAX_MESSAGE_SIZE_BYTES |-> MAX_SIGNAL_DATA_SIZE + MAX_SIGNAL_DATA_SIZE,
    MAX_SIGNAL_DATA_SIZE |-> MAX_SIGNAL_DATA_SIZE ]

Configs == {ConfigOpen, ConfigTight, ConfigRelay}

VARIABLES
  CONFIG,            \* the configuration in force (lines 403-451)
  readyState,        \* ws.readyState of each socket; "NONE" = not yet created
  chan,              \* the server (wssPrep / wssClassroom) a socket belongs to
  clients,           \* wss.clients of each server, in insertion order
  meta,              \* socketMeta (lines 469-486); roomId is meta[roomIdKey]
  rooms,             \* per manager: roomId -> Set<WebSocket> (line 654)
  roomLocks,         \* per manager: roomId -> boolean (line 655)
  pendingJoins,      \* join retries scheduled by setTimeout (line 679)
  connectionsByIP,   \* IP -> Set<WebSocket> (line 491)
  totalConnections,  \* line 492
  pendingUpgrades,   \* upgrade requests suspended at the await of line 1186
  clock,             \* Date.now()
  admitted,          \* per socket and millisecond: frames the limiter let pass
  closeSent,         \* sockets the server sent a close frame whose peer has not
                     \* answered yet: CLOSING, and still receiving
  phase,             \* "running", "draining" after shutdown, "closed" once
                     \* both WebSocket servers are closed
  graceTimers,       \* the pending timers of closeConnection, in firing order
  atSignal,          \* the sockets that were open when shutdown was called
  sent,              \* bag of the frames the last callback sent
  ticksSilent,       \* heartbeat ticks since the socket was last marked alive
  wire,              \* per socket: the frames its client sent, in order
  inbox,             \* per socket: the frames received and not yet emitted
                     \* as "message", each with its position on the wire
  handled,           \* per socket: the wire positions of the frames the
                     \* message handler has run for, in the order it ran
  heard              \* per socket: the signals forwarded to it, each with its
                     \* sender and its position on the sender's wire

vars == << CONFIG, readyState, chan, clients, meta, rooms, roomLocks,
           pendingJoins, connectionsByIP, totalConnections, pendingUpgrades,
           clock, admitted, closeSent, phase, graceTimers, atSignal, sent,
           ticksSilent, wire, inbox, handled, heard >>

\* ------------------------------------------------------------- JS Map
EmptyMap == [k \in {} |-> {}]
MapHas(m, k) == k \in DOMAIN m
MapSet(m, k, v) == [x \in (DOMAIN m) \cup {k} |-> IF x = k THEN v ELSE m[x]]
MapDelete(m, k) == [x \in (DOMAIN m) \ {k} |-> m[x]]
MapSize(m) == Cardinality(DOMAIN m)

\* getMeta's fresh record (lines 474-482).  A socket talks to one channel
\* only, so one roomId field stands for meta[roomIdKey] of its manager.
NewMeta ==
  [ roomId |-> NULL, isInitiator |-> FALSE, userId |-> NULL, ip |-> NULL,
    isAlive |-> TRUE, messageTimestamps |-> <<>> ]

\* ------------------------------------------------------------- frames
\* The outbound frames (section "MESSAGE TYPES", lines 456-466), each with
\* the socket it is sent on.
ErrorFrame(to, message) == [to |-> to, type |-> "error", message |-> message]
RoomFullFrame(to) == [to |-> to, type |-> "room-full"]
JoinedFrame(to, roomId, isInitiator) ==
  [to |-> to, type |-> "joined", roomId |-> roomId, isInitiator |-> isInitiator]
PeerJoinedFrame(to, roomId) ==
  [to |-> to, type |-> "peer-joined", roomId |-> roomId]
PeerLeftFrame(to, roomId) == [to |-> to, type |-> "peer-left", roomId |-> roomId]
\* A raw status line written on a socket that is then destroyed (lines 1151,
\* 1168, 1180, 1192), or the bare destroy of line 1158.
CloseFrame(to, code) == [type |-> "close", to |-> to, code |-> code]
HttpReply(status) == [type |-> "http", status |-> status]
SignalFrame(to, signalType, data) ==
  [to |-> to, type |-> "signal", signalType |-> signalType, data |-> data]

\* The part of the state a callback works on, threaded through the helpers.
Now ==
  [ readyState |-> readyState, meta |-> meta, rooms |-> rooms,
    roomLocks |-> roomLocks, pendingJoins |-> pendingJoins,
    connectionsByIP |-> connectionsByIP,
    totalConnections |-> totalConnections, admitted |-> admitted,
    closeSent |-> closeSent, sent |-> EmptyBag ]

\* safeSend (lines 836-845): nothing is sent on a socket that is not OPEN.
safeSend(st, frame) ==
  IF st.readyState[frame.to] # "OPEN" THEN st
  ELSE [st EXCEPT !.sent = @ (+) SetToBag({frame})]

\* `for (const peer of room) if (peer.readyState === OPEN) safeSend(peer, f)`
OpenPeers(st, room) == {p \in room : st.readyState[p] = "OPEN"}

\* ------------------------------------------------------- Room Manager
\* The options the two managers are created with (lines 921-939).
Options(ch) ==
  IF ch = "video"
  THEN [ maxPeers |-> MAX_VIDEO_PEERS, maxRooms |-> CONFIG.MAX_TOTAL_ROOMS,
         notifyOnJoin |-> TRUE, notifyOnLeave |-> TRUE,
         trackInitiator |-> TRUE ]
  ELSE [ maxPeers |-> MAX_CLASSROOM_PEERS, maxRooms |-> CONFIG.MAX_TOTAL_ROOMS,
         notifyOnJoin |-> FALSE, notifyOnLeave |-> FALSE,
         trackInitiator |-> FALSE ]

\* ROOM_ID_REGEX.test (line 435) on the ids of the model.
MatchesRoomIdRegex(roomId) == roomId \in ValidRoomIds

\* validateRoomId (lines 561-572).
validateRoomId(roomId) ==
  IF roomId = "" \/ roomId = NULL
  THEN [valid |-> FALSE, reason |-> "Invalid roomId"]
  ELSE IF ~MatchesRoomIdRegex(roomId)
  THEN [valid |-> FALSE,
        reason |-> "RoomId contains invalid characters or is too long"]
  ELSE [valid |-> TRUE, reason |-> NULL]

\* Mutant: nobody is told of a leave.
LeaveNotifiesNobody(st, o, room) == {}
\* leave, the notification loop (lines 762-768).
LeaveNotified(st, o, room) ==
  IF o.notifyOnLeave THEN OpenPeers(st, room) ELSE {}

RoomNeverEmpty(room) == FALSE
\* leave, line 771: remainingSize === 0.
RoomIsEmpty(room) == room = {}

\* leave (lines 748-779).
leave(st, ch, ws) ==
  LET o == Options(ch)
      roomId == st.meta[ws].roomId
  IN IF roomId = NULL THEN st
     ELSE IF ~MapHas(st.rooms[ch], roomId)
     THEN [st EXCEPT !.meta[ws].roomId = NULL]
     ELSE
       LET room == st.rooms[ch][roomId] \ {ws}
           told == LeaveNotified(st, o, room)
           s1 == [st EXCEPT !.sent =
                    @ (+) SetToBag({PeerLeftFrame(p, roomId) : p \in told})]
           s2 == IF RoomIsEmpty(room)
                 THEN [s1 EXCEPT !.rooms[ch] = MapDelete(@, roomId),
                                 !.roomLocks[ch] = MapDelete(@, roomId)]
                 ELSE [s1 EXCEPT !.rooms[ch] = MapSet(@, roomId, room)]
       IN [s2 EXCEPT !.meta[ws].roomId = NULL]

\* Mutant: the implicit leave of the old room is skipped.
NeverInOtherRoom(recorded, roomId) == FALSE

\* join, line 692: the socket is recorded in another room.
InOtherRoom(recorded, roomId) == recorded # NULL /\ recorded # roomId

\* join, lines 696-701: the members of the room whose socket is still open.
PruneDead(st, room) == {p \in room : st.readyState[p] = "OPEN"}

\* Mutants of the capacity check: the check dropped, and off by one.
RoomNeverFull(room, maxPeers) == FALSE
RoomIsFullOffByOne(room, maxPeers) == Cardinality(room) > maxPeers

\* join, line 710.
RoomIsFull(room, maxPeers) == Cardinality(room) >= maxPeers

\* join, line 720.
ComputeInitiator(o, room) ==
  IF o.trackInitiator THEN Cardinality(room) = 1 ELSE FALSE

\* Mutant: nobody is told of a join.
JoinNotifiesNobody(st, o, room) == {}

\* join, the notification loop (lines 733-739).
JoinNotified(st, o, room) ==
  IF o.notifyOnJoin THEN OpenPeers(st, room) ELSE {}

\* Mutant: the lock entry is left as the join set it.
LockKept(locks, roomId) == locks
\* join, lines 705, 712, 744: roomLocks.set(roomId, false).
Unlock(locks, roomId) == MapSet(locks, roomId, FALSE)

\* join, lines 684-745: the part that runs holding the room's lock.  Every
\* exit sets the lock entry to false (lines 705, 712, 744).
joinLocked(st, ch, ws, roomId) ==
  LET o == Options(ch)
      s1 == IF MapHas(st.rooms[ch], roomId) THEN st
            ELSE [st EXCEPT !.rooms[ch] = MapSet(@, roomId, {})]
      s2 == IF InOtherRoom(s1.meta[ws].roomId, roomId)
            THEN leave(s1, ch, ws) ELSE s1
      room == PruneDead(s2, s2.rooms[ch][roomId])
      s3 == [s2 EXCEPT !.rooms[ch] = MapSet(@, roomId, room)]
      unlock(s) == [s EXCEPT !.roomLocks[ch] = Unlock(@, roomId)]
  IN IF ws \in room THEN unlock(s3)
     ELSE IF RoomIsFull(room, o.maxPeers)
     THEN unlock(safeSend(s3, RoomFullFrame(ws)))
     ELSE
       LET grown == room \cup {ws}
           isInitiator == ComputeInitiator(o, grown)
           s4 == [s3 EXCEPT !.rooms[ch] = MapSet(@, roomId, grown),
                            !.meta[ws].roomId = roomId,
                            !.meta[ws].isInitiator =
                               IF o.trackInitiator THEN isInitiator ELSE @]
           s5 == safeSend(s4, JoinedFrame(ws, roomId, isInitiator))
           told == JoinNotified(s5, o, grown)
           s6 == [s5 EXCEPT !.sent =
                    @ (+) SetToBag({PeerJoinedFrame(p, roomId) : p \in told})]
       IN unlock(s6)

RoomLimitOffByOne(roomsOfChannel, roomId, maxRooms) ==
  ~MapHas(roomsOfChannel, roomId) /\ MapSize(roomsOfChannel) > maxRooms
\* join, line 668: the room would be new and the manager is at its limit.
RoomLimitReached(roomsOfChannel, roomId, maxRooms) ==
  ~MapHas(roomsOfChannel, roomId) /\ MapSize(roomsOfChannel) >= maxRooms

\* join (lines 657-746).
join(st, ch, ws, roomId) ==
  LET o == Options(ch)
      v == validateRoomId(roomId)
  IN IF ~v.valid THEN safeSend(st, ErrorFrame(ws, v.reason))
     ELSE IF RoomLimitReached(st.rooms[ch], roomId, o.maxRooms)
     THEN safeSend(st, ErrorFrame(ws, "Maximum room limit reached"))
     ELSE IF MapHas(st.roomLocks[ch], roomId) /\ st.roomLocks[ch][roomId]
     THEN [st EXCEPT !.pendingJoins = @ \cup {<<ws, roomId>>}]
     ELSE joinLocked([st EXCEPT !.roomLocks[ch] = MapSet(@, roomId, TRUE)],
                     ch, ws, roomId)

\* Mutant: the sender is not skipped.
BroadcastToAll(st, room, ws) == {p \in room : st.readyState[p] = "OPEN"}

\* broadcast, line 790: every other member whose socket is open.
BroadcastTargets(st, room, ws) == {p \in room : p # ws /\ st.readyState[p] = "OPEN"}

\* broadcast (lines 781-794).
broadcast(st, ch, ws, signalType, data) ==
  LET roomId == st.meta[ws].roomId
  IN IF roomId = NULL THEN st
     ELSE IF ~MapHas(st.rooms[ch], roomId) THEN st
     ELSE [st EXCEPT !.sent = @ (+) SetToBag(
             {SignalFrame(p, signalType, data) :
                p \in BroadcastTargets(st, st.rooms[ch][roomId], ws)})]

\* -------------------------------------------------- Connection Tracker
\* trackConnection (lines 494-505).
trackConnection(st, ws, ip) ==
  LET set == IF MapHas(st.connectionsByIP, ip)
             THEN st.connectionsByIP[ip] ELSE {}
  IN [st EXCEPT !.totalConnections = @ + 1,
                !.connectionsByIP = MapSet(@, ip, set \cup {ws}),
                !.meta[ws].ip = ip]

\* untrackConnection, line 508.
DecrementTotal(n) == IF n - 1 > 0 THEN n - 1 ELSE 0

\* `if (meta.ip)` (line 511): the empty string is falsy.
Truthy(s) == s # NULL /\ s # ""

\* untrackConnection (lines 507-520).
untrackConnection(st, ws) ==
  LET ip == st.meta[ws].ip
      s1 == [st EXCEPT !.totalConnections = DecrementTotal(@)]
  IN IF ~Truthy(ip) THEN s1
     ELSE IF ~MapHas(s1.connectionsByIP, ip) THEN s1
     ELSE LET set == s1.connectionsByIP[ip] \ {ws}
          IN IF set = {}
             THEN [s1 EXCEPT !.connectionsByIP = MapDelete(@, ip)]
             ELSE [s1 EXCEPT !.connectionsByIP = MapSet(@, ip, set)]

\* canAcceptConnection (lines 522-533).
canAcceptConnection(ip) ==
  IF totalConnections >= CONFIG.MAX_CONNECTIONS_TOTAL THEN FALSE
  ELSE IF MapHas(connectionsByIP, ip)
          /\ Cardinality(connectionsByIP[ip]) >= CONFIG.MAX_CONNECTIONS_PER_IP
  THEN FALSE
  ELSE TRUE

\* getClientIP (lines 630-638).  A forwarded-for header is the sequence of
\* its comma-separated, trimmed parts; <<>> is the header absent.
getClientIP(forwarded, remoteAddress) ==
  IF forwarded # <<>> THEN forwarded[1]
  ELSE IF remoteAddress # NULL THEN remoteAddress ELSE "unknown"

\* ws.terminate(): a socket that is not closed yet is destroyed; its close
\* event follows in a later turn of the event loop.
terminate(st, ws) ==
  IF st.readyState[ws] = "CLOSED" THEN st
  ELSE [st EXCEPT !.readyState[ws] = "CLOSING", !.closeSent = @ \ {ws}]

\* ------------------------------------------------------ Message Router
\* What a client can put on the wire: text that is not JSON, JSON without a
\* type, the three frame types with their fields, and an unknown type.  The
\* data of a signal is absent, a short string, or a string one character
\* longer than the shipped signal data limit.
SignalTypes == {"offer", "answer"}
DataInputs == {NULL, "sdp", "big"}
\* dataStr.length (lines 598-599) and raw.length (line 1087): the frame is
\* at least as long as the data it carries.
DataLen(d) ==
  IF d = NULL THEN 0 ELSE IF d = "big" THEN MAX_SIGNAL_DATA_SIZE + 1 ELSE Len(d)
FrameLen(msg) == DataLen(msg.data) + 1
Inbound ==
  { [kind |-> k, roomId |-> NULL, signalType |-> NULL, data |-> NULL] :
      k \in {"not-json", "no-type", "leave", "unknown"} }
  \cup { [kind |-> "join", roomId |-> r, signalType |-> NULL, data |-> NULL] :
           r \in RoomIdInputs }
  \cup { [kind |-> "signal", roomId |-> NULL, signalType |-> t, data |-> d] :
           t \in SignalTypes, d \in DataInputs }

\* validateSignalPayload (lines 574-613); VALID_SIGNAL_TYPES is null.
validateSignalPayload(msg) ==
  IF msg.data = NULL
  THEN [valid |-> FALSE, reason |-> "Missing signal data"]
  ELSE IF DataLen(msg.data) > CONFIG.MAX_SIGNAL_DATA_SIZE
  THEN [valid |-> FALSE, reason |-> "Signal data too large"]
  ELSE [valid |-> TRUE, reason |-> NULL]

\* checkRateLimit (lines 538-556): the timestamps still in the window, and
\* whether the message is admitted.
InWindowOfOne(stamps, now) ==
  SelectSeq(stamps, LAMBDA t : t > now - 1)
InWindow(stamps, now) ==
  SelectSeq(stamps, LAMBDA t : t > now - CONFIG.RATE_LIMIT_WINDOW_MS)
RateLimited(st, ws, now) ==
  /\ CONFIG.RATE_LIMIT_ENABLED
  /\ Len(InWindow(st.meta[ws].messageTimestamps, now))
        >= CONFIG.RATE_LIMIT_MAX_MESSAGES
checkRateLimit(st, ws, now) ==
  IF ~CONFIG.RATE_LIMIT_ENABLED THEN st
  ELSE LET kept == InWindow(st.meta[ws].messageTimestamps, now)
       IN IF Len(kept) >= CONFIG.RATE_LIMIT_MAX_MESSAGES
          THEN [st EXCEPT !.meta[ws].messageTimestamps = kept]
          ELSE [st EXCEPT !.meta[ws].messageTimestamps = Append(kept, now)]

\* The switch of the message handler (lines 990-1058), for a frame the rate
\* limiter admitted.
dispatch(st, ch, ws, msg) ==
  IF msg.kind = "not-json" THEN safeSend(st, ErrorFrame(ws, "Invalid JSON"))
  ELSE IF msg.kind = "no-type"
  THEN safeSend(st, ErrorFrame(ws, "Missing message type"))
  ELSE IF msg.kind = "join"
  THEN LET v == validateRoomId(msg.roomId)
       IN IF ~v.valid THEN safeSend(st, ErrorFrame(ws, v.reason))
          ELSE join(st, ch, ws, msg.roomId)
  ELSE IF msg.kind = "leave" THEN leave(st, ch, ws)
  ELSE IF msg.kind = "signal"
  THEN IF st.meta[ws].roomId = NULL
       THEN safeSend(st, ErrorFrame(ws, "Not in a room"))
       ELSE LET v == validateSignalPayload(msg)
            IN IF ~v.valid THEN safeSend(st, ErrorFrame(ws, v.reason))
               ELSE broadcast(st, ch, ws, msg.signalType, msg.data)
  ELSE st

\* History: with the limiter on, one more frame of ws went past it at `now`.
Admit(st, ws, now) ==
  IF ~CONFIG.RATE_LIMIT_ENABLED THEN st
  ELSE [st EXCEPT !.admitted[ws][now] =
          IF @ > CONFIG.RATE_LIMIT_MAX_MESSAGES THEN @ ELSE @ + 1]

\* The handler createMessageHandler returns (lines 983-1059).
messageHandler(st, ch, ws, msg, now) ==
  IF RateLimited(st, ws, now)
  THEN safeSend(checkRateLimit(st, ws, now),
                ErrorFrame(ws, "Rate limit exceeded"))
  ELSE dispatch(Admit(checkRateLimit(st, ws, now), ws, now), ch, ws, msg)

\* ------------------------------------------------------------- actions
\* The callback's result becomes the next state.
Commit(st) ==
  /\ readyState' = st.readyState
  /\ meta' = st.meta
  /\ rooms' = st.rooms
  /\ roomLocks' = st.roomLocks
  /\ pendingJoins' = st.pendingJoins
  /\ connectionsByIP' = st.connectionsByIP
  /\ totalConnections' = st.totalConnections
  /\ admitted' = st.admitted
  /\ closeSent' = st.closeSent
  /\ sent' = st.sent

\* ws.on("message") (lines 1085-1092): the size check, then the handler.
onMessage(st, ch, ws, msg, now) ==
  IF FrameLen(msg) > CONFIG.MAX_MESSAGE_SIZE_BYTES
  THEN safeSend(st, ErrorFrame(ws, "Message too large"))
  ELSE messageHandler(st, ch, ws, msg, now)

\* ws.on("error") (lines 1102-1112); the socket has left OPEN and receives
\* no more when the library emits the event.
onError(st, ch, ws) ==
  terminate(untrackConnection(
    leave([st EXCEPT !.readyState[ws] = "CLOSING", !.closeSent = @ \ {ws}],
          ch, ws), ws), ws)

\* What the server does with a frame: the library, created with maxPayload
\* (lines 909-916), fails a frame over that size with an error event and
\* closes the socket; any other frame is emitted as "message".
Receive(st, ch, ws, msg, now) ==
  IF FrameLen(msg) > CONFIG.MAX_MESSAGE_SIZE_BYTES
  THEN onError(st, ch, ws)
  ELSE onMessage(st, ch, ws, msg, now)

\* A frame arrives on a socket that is open, or that the server has sent a
\* close frame and whose peer has not answered it yet.
Message(ws, msg) ==
  /\ readyState[ws] = "OPEN" \/ ws \in closeSent
  /\ Commit(Receive(Now, chan[ws], ws, msg, clock))
  /\ UNCHANGED << CONFIG, wire, inbox, handled, heard, phase, graceTimers, atSignal, clock, chan, clients, pendingUpgrades, ticksSilent >>

\* The receiver of the library parses the frames of a socket in the order
\* they came off the stream and emits "message" for one at a time; the
\* handler registered at line 1085 is synchronous, so it has returned before
\* the next frame is emitted.
DequeueNewest(queue) ==
  [ entry |-> queue[Len(queue)], rest |-> SubSeq(queue, 1, Len(queue) - 1) ]
Dequeue(queue) == [ entry |-> Head(queue), rest |-> Tail(queue) ]

\* A frame of the client of ws comes off the stream.
Arrive(ws, msg) ==
  /\ readyState[ws] = "OPEN"
  /\ Len(wire[ws]) < MaxWire
  /\ wire' = [wire EXCEPT ![ws] = Append(@, msg)]
  /\ inbox' = [inbox EXCEPT ![ws] = Append(@, [n |-> Len(wire[ws]) + 1, frame |-> msg])]
  /\ sent' = EmptyBag
  /\ UNCHANGED << CONFIG, handled, heard, phase, graceTimers, atSignal, clock,
                  readyState, chan, clients, meta, rooms, roomLocks,
                  pendingJoins, connectionsByIP, totalConnections, admitted,
                  closeSent, pendingUpgrades, ticksSilent >>

\* The sockets a callback that left st forwarded a signal to.
SignalledIn(st) == {f.to : f \in {g \in BagToSet(st.sent) : g.type = "signal"}}

\* "message" is emitted for the next frame of ws (lines 1085-1092).
Handle(ws) ==
  /\ readyState[ws] = "OPEN" \/ ws \in closeSent
  /\ inbox[ws] # <<>>
  /\ LET d == Dequeue(inbox[ws])
         s == Receive(Now, chan[ws], ws, d.entry.frame, clock)
     IN /\ Commit(s)
        /\ inbox' = [inbox EXCEPT ![ws] = d.rest]
        /\ handled' = [handled EXCEPT ![ws] = Append(@, d.entry.n)]
        /\ heard' = [p \in Conns |->
                       IF p \in SignalledIn(s)
                       THEN Append(heard[p], [from |-> ws, n |-> d.entry.n])
                       ELSE heard[p]]
  /\ UNCHANGED << CONFIG, wire, phase, graceTimers, atSignal, clock, chan,
                  clients, pendingUpgrades, ticksSilent >>

\* ---------------------------------------------------------- Gatekeeper
\* An upgrade request: its URL, Origin header, forwarded-for header and the
\* token authenticateConnection extracts from it (lines 857-883).
Paths == {"/ws/prep", "/ws/classroom", "/api", "malformed"}
Origins == {NULL, "https://app.example", "https://evil.example"}
Tokens == {NULL, "token"}
Requests ==
  [ path : Paths, origin : Origins, forwarded : ForwardedInputs,
    token : Tokens ]

\* validateOrigin (lines 615-628).
validateOrigin(req) ==
  IF CONFIG.ALLOWED_ORIGINS = {} THEN TRUE
  ELSE IF req.origin = NULL THEN TRUE
  ELSE req.origin \in CONFIG.ALLOWED_ORIGINS

GatekeeperQuotaFirst(req) ==
  LET ip == getClientIP(req.forwarded, RemoteAddress)
  IN IF req.path = "malformed" THEN "400"
     ELSE IF req.path \notin {"/ws/prep", "/ws/classroom"} THEN "destroyed"
     ELSE IF ~canAcceptConnection(ip) THEN "503"
     ELSE IF ~validateOrigin(req) THEN "403"
     ELSE IF ~CONFIG.AUTH_ENABLED THEN "accept"
     ELSE IF req.token = NULL THEN "401"
     ELSE "await"

\* The upgrade handler up to its await (lines 1142-1186) and the result of
\* authenticateConnection when it returns without calling the validator
\* (lines 851-853, 885-890).  "await" is the call of CONFIG.validateToken.
Gatekeeper(req) ==
  LET ip == getClientIP(req.forwarded, RemoteAddress)
  IN IF req.path = "malformed" THEN "400"
     ELSE IF req.path \notin {"/ws/prep", "/ws/classroom"} THEN "destroyed"
     ELSE IF ~validateOrigin(req) THEN "403"
     ELSE IF ~canAcceptConnection(ip) THEN "503"
     ELSE IF ~CONFIG.AUTH_ENABLED THEN "accept"
     ELSE IF req.token = NULL THEN "401"
     ELSE "await"

\* Line 1198.
ChannelOf(path) == IF path = "/ws/prep" THEN "video" ELSE "classroom"

\* The socket object the next completed handshake creates.
Unused == {c \in Conns : readyState[c] = "NONE"}
FreshWs == CHOOSE c \in Unused : \A d \in Unused : c <= d

\* handleUpgrade's callback (lines 1200-1204) and the connection handler it
\* emits to (lines 1066-1082), for the request `req`.
Accept(req, userId) ==
  LET ws == FreshWs
      ip == getClientIP(req.forwarded, RemoteAddress)
      ch == ChannelOf(req.path)
      s0 == [Now EXCEPT !.readyState[ws] = "OPEN",
                        !.meta[ws].userId = userId,
                        !.meta[ws].ip = ip]
      s1 == trackConnection(s0, ws, ip)
      s2 == [s1 EXCEPT !.meta[ws].isAlive = TRUE]
  IN /\ Unused # {}
     /\ Commit(s2)
     /\ chan' = [chan EXCEPT ![ws] = ch]
     /\ clients' = [clients EXCEPT ![ch] = Append(@, ws)]
     /\ ticksSilent' = [ticksSilent EXCEPT ![ws] = 0]

\* An upgrade request one of the checks turns away.
UpgradeReject(req) ==
  /\ Gatekeeper(req) \in {"400", "destroyed", "403", "503", "401"}
  /\ sent' = SetToBag({HttpReply(Gatekeeper(req))})
  /\ UNCHANGED << CONFIG, wire, inbox, handled, heard, phase, graceTimers, atSignal, clock, readyState, chan, clients, meta, rooms, roomLocks,
                  pendingJoins, connectionsByIP, totalConnections, admitted, closeSent,
                  pendingUpgrades, ticksSilent >>

\* An upgrade request that passes with authentication off.
UpgradeAccept(req) ==
  /\ Gatekeeper(req) = "accept"
  /\ Accept(req, "anonymous")
  /\ UNCHANGED << CONFIG, wire, inbox, handled, heard, phase, graceTimers, atSignal, clock, pendingUpgrades >>

\* An upgrade request that passes with authentication off after both servers
\* were closed: handleUpgrade (line 1200) of a closed server either completes
\* the handshake as before (UpgradeAccept) or aborts it with a 503,
\* depending on the version of the library.
UpgradeAbort(req) ==
  /\ phase = "closed"
  /\ Gatekeeper(req) = "accept"
  /\ sent' = SetToBag({HttpReply("503")})
  /\ UNCHANGED << CONFIG, wire, inbox, handled, heard, phase, graceTimers, atSignal, clock, readyState, chan,
                  clients, meta, rooms, roomLocks, pendingJoins,
                  connectionsByIP, totalConnections, admitted, closeSent,
                  pendingUpgrades, ticksSilent >>

\* An upgrade request that passes the synchronous checks and waits for the
\* token validator (line 892, reached from line 1186).
UpgradeAwait(req) ==
  /\ Gatekeeper(req) = "await"
  /\ Len(pendingUpgrades) < MaxPending
  /\ pendingUpgrades' = Append(pendingUpgrades, req)
  /\ sent' = EmptyBag
  /\ UNCHANGED << CONFIG, wire, inbox, handled, heard, phase, graceTimers, atSignal, clock, readyState, chan, clients, meta, rooms, roomLocks,
                  pendingJoins, connectionsByIP, totalConnections, admitted, closeSent,
                  ticksSilent >>

RemoveAt(seq, i) == SubSeq(seq, 1, i - 1) \o SubSeq(seq, i + 1, Len(seq))

\* The validator answers for the i-th waiting request (lines 893-897,
\* 1187-1204): the handshake completes, or the request is turned away.
AuthResolve(i, valid) ==
  /\ i \in 1..Len(pendingUpgrades)
  /\ pendingUpgrades' = RemoveAt(pendingUpgrades, i)
  /\ IF valid
     THEN Accept(pendingUpgrades[i], "user")
     ELSE /\ sent' = SetToBag({HttpReply("401")})
          /\ UNCHANGED << readyState, chan, clients, meta, rooms, roomLocks,
                          pendingJoins, connectionsByIP, totalConnections, admitted, closeSent,
                          ticksSilent >>
  /\ UNCHANGED << CONFIG, wire, inbox, handled, heard, phase, graceTimers, atSignal, clock >>

\* ------------------------------------------------------ socket lifecycle
\* The peer's close frame or the end of its TCP stream arrives; ws moves the
\* socket to CLOSING and emits "close" in a later turn.
ClientClose(ws) ==
  /\ readyState[ws] = "OPEN"
  /\ readyState' = [readyState EXCEPT ![ws] = "CLOSING"]
  /\ sent' = EmptyBag
  /\ UNCHANGED << CONFIG, wire, inbox, handled, heard, phase, graceTimers, atSignal, clock, chan, clients, meta, rooms, roomLocks, pendingJoins,
                  connectionsByIP, totalConnections, admitted, closeSent, pendingUpgrades,
                  ticksSilent >>

\* socketMeta is a WeakMap (line 469): once a closed socket is referenced by
\* no room and no per-address set its record is unreachable, and the model
\* drops it.
Referenced(st, ws) ==
  \/ \E ch \in Channels : \E r \in DOMAIN st.rooms[ch] : ws \in st.rooms[ch][r]
  \/ \E ip \in DOMAIN st.connectionsByIP : ws \in st.connectionsByIP[ip]
Collect(st, ws) ==
  IF Referenced(st, ws) THEN st ELSE [st EXCEPT !.meta[ws] = NewMeta]

Without(seq, x) == SelectSeq(seq, LAMBDA y : y # x)

\* ws.on("close") (lines 1095-1099); the server drops the socket from its
\* clients set with the same event.
CloseEvent(ws) ==
  /\ readyState[ws] = "CLOSING"
  /\ Commit(Collect(untrackConnection(
       leave([Now EXCEPT !.readyState[ws] = "CLOSED", !.closeSent = @ \ {ws}],
             chan[ws], ws), ws), ws))
  /\ clients' = [clients EXCEPT ![chan[ws]] = Without(@, ws)]
  /\ ticksSilent' = [ticksSilent EXCEPT ![ws] = 0]
  /\ UNCHANGED << CONFIG, wire, inbox, handled, heard, phase, graceTimers, atSignal, clock, chan, pendingUpgrades >>

\* ws.on("error") (lines 1102-1112).
ErrorEvent(ws) ==
  /\ readyState[ws] \in {"OPEN", "CLOSING"}
  /\ Commit(onError(Now, chan[ws], ws))
  /\ UNCHANGED << CONFIG, wire, inbox, handled, heard, phase, graceTimers, atSignal, clock, chan, clients, pendingUpgrades, ticksSilent >>

\* ---------------------------------------------------- Heartbeat Monitor
\* Mutant: every socket of the sweep counts as unresponsive.
AlwaysUnresponsive(m) == TRUE
\* `if (!meta.isAlive)` (lines 951, 966).
Unresponsive(m) == ~m.isAlive

\* One socket of the sweep (lines 950-960).
HeartbeatVisit(st, ch, ws) ==
  IF Unresponsive(st.meta[ws])
  THEN terminate(untrackConnection(leave(st, ch, ws), ws), ws)
  ELSE [st EXCEPT !.meta[ws].isAlive = FALSE]

RECURSIVE HeartbeatSweep(_, _, _)
\* wss.clients.forEach of one tick (lines 949-961, 964-976).
HeartbeatSweep(st, ch, seq) ==
  IF seq = <<>> THEN st
  ELSE HeartbeatSweep(HeartbeatVisit(st, ch, Head(seq)), ch, Tail(seq))

InSeq(seq, x) == \E i \in 1..Len(seq) : seq[i] = x

\* Mutant: the interval timers outlive the termination signal.
HeartbeatAlwaysArmed(ph) == TRUE
\* The interval timers are set at setup (lines 948, 964) and cleared by
\* shutdown before anything else (lines 1214-1219).
HeartbeatArmed(ph) == ph = "running"

\* The interval timer of one channel fires.
HeartbeatTick(ch) ==
  /\ HeartbeatArmed(phase)
  /\ clients[ch] # <<>>
  /\ Commit(HeartbeatSweep(Now, ch, clients[ch]))
  /\ ticksSilent' = [c \in Conns |->
       IF InSeq(clients[ch], c) /\ ticksSilent[c] < MaxTicks
       THEN ticksSilent[c] + 1 ELSE ticksSilent[c]]
  /\ UNCHANGED << CONFIG, wire, inbox, handled, heard, phase, graceTimers, atSignal, clock, chan, clients, pendingUpgrades >>

\* ws.on("pong") (lines 1079-1081): the peer answers a probe.
Pong(ws) ==
  /\ readyState[ws] = "OPEN"
  /\ ~meta[ws].isAlive
  /\ meta' = [meta EXCEPT ![ws].isAlive = TRUE]
  /\ ticksSilent' = [ticksSilent EXCEPT ![ws] = 0]
  /\ sent' = EmptyBag
  /\ UNCHANGED << CONFIG, wire, inbox, handled, heard, phase, graceTimers, atSignal, clock, readyState, chan, clients, rooms, roomLocks,
                  pendingJoins, connectionsByIP, totalConnections, admitted, closeSent,
                  pendingUpgrades >>

\* -------------------------------------------------- Shutdown Coordinator
\* ws.close(1001, ...) (line 1227): an open socket sends the close frame and
\* waits for the peer's; on a socket already closing nothing is sent.
close(st, ws, code) ==
  IF st.readyState[ws] # "OPEN" THEN st
  ELSE [st EXCEPT !.readyState[ws] = "CLOSING",
                  !.closeSent = @ \cup {ws},
                  !.sent = @ (+) SetToBag({CloseFrame(ws, code)})]

RECURSIVE CloseAll(_, _)
\* The two forEach loops of shutdown (lines 1240-1246).
CloseAll(st, seq) ==
  IF seq = <<>> THEN st
  ELSE CloseAll(close(st, Head(seq), 1001), Tail(seq))

\* Promise.all(closePromises) (line 1248) is resolved once no timer is left.
AlwaysSettled(timers) == TRUE
AllSettled(timers) == timers = <<>>

\* shutdown (lines 1210-1255), for the first termination signal: every
\* client of both servers is sent the close and gets a timer; with no client
\* the servers are closed at once.
Shutdown ==
  LET all == clients["video"] \o clients["classroom"]
  IN /\ phase = "running"
     /\ Commit(CloseAll(Now, all))
     /\ atSignal' = {ws \in Conns : readyState[ws] = "OPEN"}
     /\ graceTimers' = all
     /\ phase' = IF AllSettled(all) THEN "closed" ELSE "draining"
     /\ UNCHANGED << CONFIG, wire, inbox, handled, heard, clock, chan, clients, pendingUpgrades, ticksSilent >>

\* The timer of closeConnection fires for the socket at the head of the
\* queue (lines 1229-1234); the last one resolves Promise.all, which closes
\* both servers (lines 1248-1253).
GraceTimeout ==
  /\ graceTimers # <<>>
  /\ Commit(terminate(Now, Head(graceTimers)))
  /\ graceTimers' = Tail(graceTimers)
  /\ phase' = IF AllSettled(Tail(graceTimers)) THEN "closed" ELSE phase
  /\ UNCHANGED << CONFIG, wire, inbox, handled, heard, clock, chan, clients, pendingUpgrades, ticksSilent,
                  atSignal >>

\* ------------------------------------------------------ specifications
\* Spec: the relay with authentication off, no origin allowlist, the rate
\* limiter switched off, quotas out of reach and the shipped size limits, all
\* clients behind one address, sending join, leave and signal frames.
RoomRequests ==
  {req \in Requests : req.forwarded = <<>> /\ req.origin = NULL
                      /\ req.token = NULL
                      /\ req.path \in {"/ws/prep", "/ws/classroom"}}
RoomMessages ==
  {msg \in Inbound : /\ msg.kind \in {"join", "leave", "signal"}
                     /\ msg.kind = "join" => msg.roomId \in ValidRoomIds
                     /\ msg.kind = "signal" => msg.data # NULL}

Init0 ==
  /\ readyState = [c \in Conns |-> "NONE"]
  /\ chan = [c \in Conns |-> NULL]
  /\ clients = [ch \in Channels |-> <<>>]
  /\ meta = [c \in Conns |-> NewMeta]
  /\ rooms = [ch \in Channels |-> EmptyMap]
  /\ roomLocks = [ch \in Channels |-> EmptyMap]
  /\ pendingJoins = {}
  /\ connectionsByIP = EmptyMap
  /\ totalConnections = 0
  /\ pendingUpgrades = <<>>
  /\ sent = EmptyBag
  /\ clock = 0
  /\ admitted = [c \in Conns |-> [t \in 0..MaxClock |-> 0]]
  /\ closeSent = {}
  /\ phase = "running"
  /\ graceTimers = <<>>
  /\ atSignal = {}
  /\ ticksSilent = [c \in Conns |-> 0]
  /\ wire = [c \in Conns |-> <<>>]
  /\ inbox = [c \in Conns |-> <<>>]
  /\ handled = [c \in Conns |-> <<>>]
  /\ heard = [c \in Conns |-> <<>>]

Init == CONFIG = ConfigOpen /\ Init0

\* All clients of one behaviour dial the same endpoint.
SameEndpoint(req) ==
  \A c \in Conns : chan[c] \in {NULL, ChannelOf(req.path)}

Next ==
  \/ \E req \in RoomRequests : SameEndpoint(req) /\ UpgradeAccept(req)
  \/ \E ws \in Conns, msg \in RoomMessages : Message(ws, msg)
  \/ \E ws \in Conns : ClientClose(ws)
  \/ \E ws \in Conns : CloseEvent(ws)
  \/ \E ws \in Conns : ErrorEvent(ws)
  \/ \E ch \in Channels : HeartbeatTick(ch)
  \/ \E ws \in Conns : Pong(ws)

Spec == Init /\ [][Next]_vars

\* SpecQuota: the relay with authentication on and quotas small enough to
\* bind; clients with a token dial the video endpoint, directly or with a
\* forwarded-for header whose first entry is empty, and join one room.
QuotaRequests ==
  {req \in Requests : /\ req.path = "/ws/prep" /\ req.origin = NULL
                      /\ req.token # NULL
                      /\ req.forwarded \in {<<>>, <<"", "10.0.0.2">>}}
QuotaMessages == {msg \in Inbound : msg.kind = "join" /\ msg.roomId = "r1"}

InitQuota == CONFIG = ConfigTight /\ Init0

NextQuota ==
  \/ \E req \in QuotaRequests : UpgradeAwait(req)
  \/ \E i \in 1..MaxPending, valid \in BOOLEAN : AuthResolve(i, valid)
  \/ \E ws \in Conns, msg \in QuotaMessages : Message(ws, msg)
  \/ \E ws \in Conns : ClientClose(ws)
  \/ \E ws \in Conns : CloseEvent(ws)
  \/ \E ws \in Conns : ErrorEvent(ws)
  \/ HeartbeatTick("video")
  \/ \E ws \in Conns : Pong(ws)

SpecQuota == InitQuota /\ [][NextQuota]_vars

\* SpecRelay: the relay with the rate limiter on, one room per channel and a
\* frame limit above the signal data limit; clients behind one address send
\* every kind of frame, well-formed or not, while time passes.
RelayMessages == {msg \in Inbound : msg.signalType \in {NULL, "offer"}}

\* Date.now() moves on between two callbacks.
Tick ==
  /\ clock < MaxClock
  /\ clock' = clock + 1
  /\ sent' = EmptyBag
  /\ UNCHANGED << CONFIG, wire, inbox, handled, heard, phase, graceTimers, atSignal, readyState, chan, clients, meta, rooms, roomLocks,
                  pendingJoins, connectionsByIP, totalConnections, admitted, closeSent,
                  pendingUpgrades, ticksSilent >>

InitRelay == CONFIG = ConfigRelay /\ Init0

NextRelay ==
  \/ \E req \in RoomRequests :
       /\ SameEndpoint(req) /\ Cardinality(Conns \ Unused) < FewConns
       /\ UpgradeAccept(req)
  \/ \E ws \in Conns, msg \in RelayMessages : Message(ws, msg)
  \/ Tick
  \/ \E ws \in Conns : ClientClose(ws)
  \/ \E ws \in Conns : CloseEvent(ws)

SpecRelay == InitRelay /\ [][NextRelay]_vars

\* SpecShutdown: the relay under the shipped quotas receiving a termination
\* signal; clients dial either endpoint, directly or with a forwarded-for
\* header whose first entry is empty, and join one room.
ShutdownRequests ==
  {req \in Requests : /\ req.path \in {"/ws/prep", "/ws/classroom"}
                      /\ req.origin = NULL /\ req.token = NULL
                      /\ req.forwarded \in {<<>>, <<"", "10.0.0.2">>}}

NextShutdown ==
  \/ \E req \in ShutdownRequests :
       Cardinality(Conns \ Unused) < FewConns /\ UpgradeAccept(req)
  \/ \E req \in ShutdownRequests : UpgradeAbort(req)
  \/ \E ws \in Conns, msg \in QuotaMessages : Message(ws, msg)
  \/ \E ws \in Conns : ClientClose(ws)
  \/ \E ws \in Conns : CloseEvent(ws)
  \/ \E ws \in Conns : ErrorEvent(ws)
  \/ Shutdown
  \/ GraceTimeout

SpecShutdown == Init /\ [][NextShutdown]_vars

\* SpecShutdownFair: the same, where a timer that is due fires and the close
\* event of a socket that is closing is emitted.
SpecShutdownFair ==
  /\ SpecShutdown
  /\ WF_vars(GraceTimeout)
  /\ \A ws \in Conns : WF_vars(CloseEvent(ws))

\* SpecDrain: the relay with its heartbeat receiving a termination signal;
\* clients behind one address dial either endpoint, join one room, answer
\* probes or not, and keep dialling during the drain, until the servers are
\* closed.
NextDrain ==
  \/ \E req \in RoomRequests :
       /\ Cardinality(Conns \ Unused) < FewConns /\ phase # "closed"
       /\ UpgradeAccept(req)
  \/ \E ws \in Conns, msg \in QuotaMessages : Message(ws, msg)
  \/ \E ws \in Conns : ClientClose(ws)
  \/ \E ws \in Conns : CloseEvent(ws)
  \/ \E ch \in Channels : HeartbeatTick(ch)
  \/ \E ws \in Conns : Pong(ws)
  \/ Shutdown
  \/ GraceTimeout

SpecDrain == Init /\ [][NextDrain]_vars

\* SpecOrder: two clients of the video endpoint behind one address put
\* joins and signals on the wire faster than the server handles them.
OrderMessages ==
  {msg \in Inbound : \/ msg.kind = "join" /\ msg.roomId = "r1"
                     \/ msg.kind = "signal" /\ msg.data = "sdp"}

NextOrder ==
  \/ \E req \in RoomRequests :
       /\ req.path = "/ws/prep" /\ Cardinality(Conns \ Unused) < FewConns
       /\ UpgradeAccept(req)
  \/ \E ws \in Conns, msg \in OrderMessages : Arrive(ws, msg)
  \/ \E ws \in Conns : Handle(ws)
  \/ \E ws \in Conns : inbox[ws] = <<>> /\ ClientClose(ws)
  \/ \E ws \in Conns : CloseEvent(ws)

SpecOrder == Init /\ [][NextOrder]_vars

\* SpecGate: the Gatekeeper with authentication on, an origin allowlist and
\* quotas small enough to bind, facing upgrade requests for the video
\* endpoint and for unknown or malformed URLs, from two addresses, with and
\* without origin and token, while accepted clients come and go.
GateRequests ==
  {req \in Requests : /\ req.path # "/ws/classroom"
                      /\ req.forwarded \in {<<>>, <<"10.0.0.2">>}}

InitGate == CONFIG = ConfigTight /\ Init0

NextGate ==
  \/ \E req \in GateRequests : UpgradeReject(req)
  \/ \E req \in GateRequests : UpgradeAwait(req)
  \/ \E i \in 1..MaxPending, valid \in BOOLEAN : AuthResolve(i, valid)
  \/ \E ws \in Conns : ClientClose(ws)
  \/ \E ws \in Conns : CloseEvent(ws)

SpecGate == InitGate /\ [][NextGate]_vars

\* ================================================================ claims
\* The members of room r of channel ch; {} when the map has no such room.
Members(ch, r) == IF MapHas(rooms[ch], r) THEN rooms[ch][r] ELSE {}
RoomsOf(ws) == {r \in ValidRoomIds : chan[ws] # NULL /\ ws \in Members(chan[ws], r)}
Frames == BagToSet(sent)
JoinMsg(r) == [kind |-> "join", roomId |-> r, signalType |-> NULL, data |-> NULL]
SignalMsg(t, d) ==
  [kind |-> "signal", roomId |-> NULL, signalType |-> t, data |-> d]
\* Signal data that passes the size limits in force.
ValidData ==
  {d \in DataInputs \ {NULL} :
     /\ DataLen(d) <= CONFIG.MAX_SIGNAL_DATA_SIZE
     /\ DataLen(d) + 1 <= CONFIG.MAX_MESSAGE_SIZE_BYTES}
\* What the server leaves behind when frame msg arrives on ws now.
After(ws, msg) == Receive(Now, chan[ws], ws, msg, clock)

\* C1: every room of every manager holds at most maxPeers sockets.
C1_RoomSizeBounded ==
  \A ch \in Channels : \A r \in DOMAIN rooms[ch] :
    Cardinality(rooms[ch][r]) <= Options(ch).maxPeers

\* C1 witness: a room is at its cap and a further socket was just refused.
C1_Witness ==
  \E ch \in Channels : \E r \in DOMAIN rooms[ch] : \E f \in Frames :
    /\ Cardinality(rooms[ch][r]) = Options(ch).maxPeers
    /\ f.type = "room-full" /\ chan[f.to] = ch /\ f.to \notin rooms[ch][r]

\* C2: a socket is in at most one member set of its channel's manager.
C2_AtMostOneRoom ==
  \A ws \in Conns : Cardinality(RoomsOf(ws)) <= 1

\* C2 witness: a socket that was in r1 with a peer has just joined r2: the
\* peer was told peer-left for r1 and the socket was acknowledged for r2.
C2_Witness ==
  \E ws \in Conns : \E f, g \in Frames :
    /\ f.type = "joined" /\ f.to = ws /\ f.roomId = "r2"
    /\ g.type = "peer-left" /\ g.roomId = "r1" /\ g.to # ws
    /\ RoomsOf(ws) = {"r2"} /\ g.to \in Members(chan[ws], "r1")

C4_AsStated ==
  \A ws \in Conns : \A r \in ValidRoomIds :
    ( /\ readyState[ws] = "OPEN"
      /\ Cardinality(Members(chan[ws], r)) = Options(chan[ws]).maxPeers
      /\ ws \notin Members(chan[ws], r) )
    => LET s == After(ws, JoinMsg(r))
       IN /\ Cardinality(s.rooms[chan[ws]][r]) <= Cardinality(rooms[chan[ws]][r])
          /\ BagIn(RoomFullFrame(ws), s.sent)
          /\ s.readyState[ws] = "OPEN"

\* C4 amended: a join to a room that holds maxPeers sockets that are all open,
\* by a socket outside it, leaves the member set as it was, is answered with
\* one room-full and no joined, and the joiner stays open.
C4_FullRoomRefuses ==
  \A ws \in Conns : \A r \in ValidRoomIds :
    ( /\ readyState[ws] = "OPEN"
      /\ Cardinality(OpenPeers(Now, Members(chan[ws], r)))
           = Options(chan[ws]).maxPeers
      /\ ws \notin Members(chan[ws], r) )
    => LET s == After(ws, JoinMsg(r))
       IN /\ s.rooms[chan[ws]][r] = rooms[chan[ws]][r]
          /\ CopiesIn(RoomFullFrame(ws), s.sent) = 1
          /\ \A f \in BagToSet(s.sent) : f.to = ws => f.type = "room-full"
          /\ s.readyState[ws] = "OPEN"

\* C4 witness: an open socket outside a room of maxPeers open sockets has
\* just been answered room-full.
C4_Witness ==
  \E ws \in Conns : \E r \in ValidRoomIds :
    /\ BagIn(RoomFullFrame(ws), sent) /\ readyState[ws] = "OPEN"
    /\ ws \notin Members(chan[ws], r)
    /\ Cardinality(OpenPeers(Now, Members(chan[ws], r)))
         = Options(chan[ws]).maxPeers

\* C5 as stated: a join with a valid roomId to a room under capacity, by a
\* socket outside it, makes the joiner a member, sends it joined with the
\* roomId, and sends peer-joined to every socket that was a member.
C5_AsStated ==
  \A ws \in Conns : \A r \in ValidRoomIds :
    ( /\ readyState[ws] = "OPEN"
      /\ Cardinality(Members(chan[ws], r)) < Options(chan[ws]).maxPeers
      /\ ws \notin Members(chan[ws], r) )
    => LET s == After(ws, JoinMsg(r))
       IN /\ ws \in s.rooms[chan[ws]][r]
          /\ \E b \in BOOLEAN : BagIn(JoinedFrame(ws, r, b), s.sent)
          /\ \A p \in Members(chan[ws], r) : BagIn(PeerJoinedFrame(p, r), s.sent)

\* C5 amended: a join with a valid roomId to a room under capacity that
\* exists or can be created within the room limit, by an open socket outside
\* it, makes the joiner a member and sends it joined with the roomId; where
\* the manager notifies on join (video) every member whose socket is open is
\* sent peer-joined, and where it does not (classroom) no peer-joined is sent.
C5_JoinSucceeds ==
  \A ws \in Conns : \A r \in ValidRoomIds :
    ( /\ readyState[ws] = "OPEN"
      /\ Cardinality(Members(chan[ws], r)) < Options(chan[ws]).maxPeers
      /\ ws \notin Members(chan[ws], r)
      /\ \/ MapHas(rooms[chan[ws]], r)
         \/ MapSize(rooms[chan[ws]]) < Options(chan[ws]).maxRooms )
    => LET s == After(ws, JoinMsg(r))
           told == {f.to : f \in {g \in BagToSet(s.sent) : g.type = "peer-joined"}}
       IN /\ ws \in s.rooms[chan[ws]][r]
          /\ \E b \in BOOLEAN : BagIn(JoinedFrame(ws, r, b), s.sent)
          /\ BagCardinality(s.sent) = Cardinality(BagToSet(s.sent))
          /\ IF Options(chan[ws]).notifyOnJoin
             THEN told = OpenPeers(Now, Members(chan[ws], r)) \cup {ws}
             ELSE told = {}

\* C5 witness: a socket has just joined a room that had an open member; the
\* joiner was acknowledged and the member was told.
C5_Witness ==
  \E ws, p \in Conns : \E r \in ValidRoomIds : \E b \in BOOLEAN :
    /\ p # ws /\ chan[ws] # NULL
    /\ BagIn(JoinedFrame(ws, r, b), sent)
    /\ BagIn(PeerJoinedFrame(p, r), sent)
    /\ {ws, p} \subseteq Members(chan[ws], r)

\* C6: on the video channel the join that makes a room's size 1 is
\* acknowledged with isInitiator false, and the join that makes it 2 with
\* isInitiator true.
C6_SecondJoinerInitiates ==
  \A f \in Frames :
    (f.type = "joined" /\ chan[f.to] = "video")
    => (f.isInitiator <=> Cardinality(Members("video", f.roomId)) = 2)

\* C7: leave on a socket that is in no member set changes no room, creates
\* or deletes no room or lock entry, and sends nothing.
C7_LeaveOutsideRoomIsNoOp ==
  \A ws \in Conns :
    (chan[ws] # NULL /\ RoomsOf(ws) = {})
    => LET s == leave(Now, chan[ws], ws)
       IN /\ s.rooms = rooms
          /\ s.roomLocks = roomLocks
          /\ s.sent = EmptyBag

RECURSIVE SumOfSizes(_, _)
SumOfSizes(m, keys) ==
  IF keys = {} THEN 0
  ELSE LET k == CHOOSE x \in keys : TRUE
       IN Cardinality(m[k]) + SumOfSizes(m, keys \ {k})

\* C8: the sizes of the per-address connection sets add up to the global
\* connection counter.
C8_SetsSumToCounter ==
  SumOfSizes(connectionsByIP, DOMAIN connectionsByIP) = totalConnections

\* The sockets that completed the handshake and are still open, and those of
\* them that came from address ip.
OpenSockets == {ws \in Conns : readyState[ws] = "OPEN"}
OpenFrom(ip) == {ws \in OpenSockets : meta[ws].ip = ip}

\* C9: at most MAX_CONNECTIONS_TOTAL sockets are open, and at most
\* MAX_CONNECTIONS_PER_IP from any one address.
C9_QuotasHold ==
  /\ Cardinality(OpenSockets) <= CONFIG.MAX_CONNECTIONS_TOTAL
  /\ \A ws \in OpenSockets :
       Cardinality(OpenFrom(meta[ws].ip)) <= CONFIG.MAX_CONNECTIONS_PER_IP

\* C10: a socket that has seen two heartbeat ticks since it was last marked
\* alive is in no room, in no per-address set, and no longer open.
C10_SilentSocketRemoved ==
  \A ws \in Conns :
    ticksSilent[ws] >= 2
    => /\ RoomsOf(ws) = {}
       /\ \A ip \in DOMAIN connectionsByIP : ws \notin connectionsByIP[ip]
       /\ readyState[ws] # "OPEN"

\* C11: a socket that has closed is a member of no room of its channel and
\* is in no per-address set, in every state from then on.
C11_ClosedIsTerminal ==
  \A ws \in Conns :
    readyState[ws] = "CLOSED"
    => /\ RoomsOf(ws) = {}
       /\ \A ip \in DOMAIN connectionsByIP : ws \notin connectionsByIP[ip]

\* C12: a signal from a member of a room whose data is longer than
\* MAX_SIGNAL_DATA_SIZE is answered to the sender with an error frame, no
\* signal frame is sent to anybody, no room changes and the sender stays open.
C12_OversizedSignalRefused ==
  \A ws \in Conns : \A t \in SignalTypes : \A d \in DataInputs :
    ( /\ readyState[ws] = "OPEN" /\ RoomsOf(ws) # {}
      /\ DataLen(d) > CONFIG.MAX_SIGNAL_DATA_SIZE )
    => LET s == After(ws, SignalMsg(t, d))
       IN /\ \E f \in BagToSet(s.sent) : f.type = "error" /\ f.to = ws
          /\ \A f \in BagToSet(s.sent) : f.type # "signal"
          /\ s.rooms = rooms
          /\ s.readyState[ws] = "OPEN"

RECURSIVE SumOver(_, _)
SumOver(f, keys) ==
  IF keys = {} THEN 0
  ELSE LET k == CHOOSE x \in keys : TRUE
       IN f[k] + SumOver(f, keys \ {k})
\* Frames of ws the limiter let pass in the window of RATE_LIMIT_WINDOW_MS
\* milliseconds that ends at millisecond `last`.
AdmittedInWindow(ws, last) ==
  SumOver(admitted[ws],
          {t \in 0..MaxClock : t > last - CONFIG.RATE_LIMIT_WINDOW_MS /\ t <= last})

GateChecks == << "path", "origin", "quota", "auth" >>
FailsCheck(req, c) ==
  IF c = "path" THEN req.path \notin {"/ws/prep", "/ws/classroom"}
  ELSE IF c = "origin"
  THEN /\ CONFIG.ALLOWED_ORIGINS # {} /\ req.origin # NULL
       /\ req.origin \notin CONFIG.ALLOWED_ORIGINS
  ELSE IF c = "quota"
  THEN LET ip == getClientIP(req.forwarded, RemoteAddress)
       IN \/ totalConnections >= CONFIG.MAX_CONNECTIONS_TOTAL
          \/ /\ MapHas(connectionsByIP, ip)
             /\ Cardinality(connectionsByIP[ip]) >= CONFIG.MAX_CONNECTIONS_PER_IP
  ELSE CONFIG.AUTH_ENABLED /\ req.token = NULL
OutcomeOfCheck(c) ==
  IF c = "path" THEN "destroyed" ELSE IF c = "origin" THEN "403"
  ELSE IF c = "quota" THEN "503" ELSE "401"
FailingChecks(req) == {i \in 1..Len(GateChecks) : FailsCheck(req, GateChecks[i])}
FirstFailing(req) ==
  CHOOSE i \in FailingChecks(req) : \A j \in FailingChecks(req) : i <= j

\* C14: for every upgrade request with a well-formed URL the outcome is that
\* of the first check, in the order path, origin, quota, authentication,
\* that the request fails, whatever the later checks would say; and a step
\* that answers with a status line or destroys the socket completes no
\* handshake, registers nothing with the tracker and touches no room.
C14_FirstFailingCheckDecides ==
  /\ [](\A req \in Requests :
          (req.path # "malformed" /\ FailingChecks(req) # {})
          => Gatekeeper(req) = OutcomeOfCheck(GateChecks[FirstFailing(req)]))
  /\ [][ (\E f \in BagToSet(sent') : f.type = "http")
         => UNCHANGED << readyState, chan, clients, meta, rooms,
                         connectionsByIP, totalConnections >> ]_vars

\* C14 witness: with the total quota used up, a request from a foreign origin
\* has just been answered 403, the outcome of the earlier of its two
\* failing checks.
C14_Witness ==
  /\ totalConnections >= CONFIG.MAX_CONNECTIONS_TOTAL
  /\ Cardinality(OpenSockets) >= CONFIG.MAX_CONNECTIONS_TOTAL
  /\ sent = SetToBag({HttpReply("403")})

\* A socket the server terminated or whose peer's close arrived: it is no
\* longer open and the server no longer waits for its answer.
Settled(ws) == readyState[ws] # "OPEN" /\ ws \notin closeSent

\* C15: the step that receives the termination signal sends every open
\* socket a close frame with code 1001, and the servers are closed only when
\* every socket that was open at the signal has finished closing or has been
\* force-terminated, no timer being left.
C15_ServersCloseLast ==
  /\ [](phase = "closed"
        => graceTimers = <<>> /\ \A ws \in atSignal : Settled(ws))
  /\ [][ (phase = "running" /\ phase' # "running")
         => \A ws \in Conns :
              readyState[ws] = "OPEN"
              => /\ BagIn(CloseFrame(ws, 1001), sent')
                 /\ ws \in atSignal' ]_vars

\* C15 witness: the servers are closed after a drain of two sockets, one
\* whose client answered the close and one that was force-terminated.
C15_Witness ==
  /\ phase = "closed"
  /\ \E a, b \in atSignal :
       readyState[a] = "CLOSED" /\ readyState[b] = "CLOSING"

\* C16: once the termination signal has arrived, every socket that was open
\* at the signal eventually is closed, in no room and in no per-address set.
C16_AllDrained ==
  (phase # "running")
  ~> (\A ws \in atSignal :
        /\ readyState[ws] = "CLOSED"
        /\ RoomsOf(ws) = {}
        /\ \A ip \in DOMAIN connectionsByIP : ws \notin connectionsByIP[ip])

\* The cleanup shared by the close handler, the error handler and the
\* heartbeat (lines 1096-1097, 1104-1105, 954-955).
cleanup(st, ch, ws) == untrackConnection(leave(st, ch, ws), ws)

\* C17: running the cleanup of an accepted socket a second time leaves the
\* rooms, the per-address sets and the connection counter as the first run
\* left them.
C17_CleanupIdempotent ==
  \A ws \in Conns :
    readyState[ws] \in {"OPEN", "CLOSING"}
    => LET once == cleanup(Now, chan[ws], ws)
           twice == cleanup(once, chan[ws], ws)
       IN /\ twice.rooms = once.rooms
          /\ twice.connectionsByIP = once.connectionsByIP
          /\ twice.totalConnections = once.totalConnections

\* The frames the claim calls protocol errors when they come from ws: text
\* that is not JSON, JSON without a type, a join whose roomId is not valid,
\* and a signal from a socket that is in no room or that carries no data.
ProtocolErrors(ws) ==
  {msg \in Inbound :
     \/ msg.kind \in {"not-json", "no-type"}
     \/ msg.kind = "join" /\ ~validateRoomId(msg.roomId).valid
     \/ msg.kind = "signal" /\ (RoomsOf(ws) = {} \/ msg.data = NULL)}

\* C18: a protocol error from an open socket is answered with one error
\* frame to the sender and no other frame, the sender stays open, and no
\* room changes.
C18_ProtocolErrorsAnswered ==
  \A ws \in Conns :
    readyState[ws] = "OPEN"
    => \A msg \in ProtocolErrors(ws) :
         LET s == After(ws, msg)
         IN /\ BagCardinality(s.sent) = 1
            /\ \A f \in BagToSet(s.sent) : f.type = "error" /\ f.to = ws
            /\ s.readyState = readyState
            /\ s.rooms = rooms

\* The same for the protocol errors whose frame is within the servers' frame
\* limit.
ProtocolErrorsWithinLimit ==
  \A ws \in Conns :
    readyState[ws] = "OPEN"
    => \A msg \in ProtocolErrors(ws) :
         FrameLen(msg) <= CONFIG.MAX_MESSAGE_SIZE_BYTES
         => LET s == After(ws, msg)
            IN /\ BagCardinality(s.sent) = 1
               /\ \A f \in BagToSet(s.sent) : f.type = "error" /\ f.to = ws
               /\ s.readyState = readyState
               /\ s.rooms = rooms

\* C19: a manager never holds more than maxRooms rooms, and a join of an open
\* socket that the limiter lets pass, for a room that does not exist while
\* the manager holds maxRooms rooms, is answered with the room-limit error
\* alone and changes no room, no lock entry and not the joiner's membership.
C19_RoomLimitHolds ==
  /\ \A ch \in Channels : MapSize(rooms[ch]) <= Options(ch).maxRooms
  /\ \A ws \in Conns : \A r \in ValidRoomIds :
       ( /\ readyState[ws] = "OPEN"
         /\ ~RateLimited(Now, ws, clock)
         /\ ~MapHas(rooms[chan[ws]], r)
         /\ MapSize(rooms[chan[ws]]) >= Options(chan[ws]).maxRooms )
       => LET s == After(ws, JoinMsg(r))
          IN /\ s.sent
                  = SetToBag({ErrorFrame(ws, "Maximum room limit reached")})
             /\ s.rooms = rooms
             /\ s.roomLocks = roomLocks
             /\ s.meta[ws].roomId = meta[ws].roomId

\* C19 witness: a member of the only room the limit allows, with an open
\* peer in it, has just asked for another room and was answered with the
\* room-limit error.
C19_Witness ==
  \E ws \in Conns :
    /\ readyState[ws] = "OPEN" /\ RoomsOf(ws) # {}
    /\ Cardinality(Members(chan[ws], meta[ws].roomId)) > 1
    /\ MapSize(rooms[chan[ws]]) = Options(chan[ws]).maxRooms
    /\ sent = SetToBag({ErrorFrame(ws, "Maximum room limit reached")})

\* C20: every room in a manager's map has at least one member and the lock
\* entries are those of the rooms; a room that appears in the map appears
\* with the one socket whose join made it, and a room that leaves the map
\* leaves it, with its lock entry, in a step that takes a member away.
C20_RoomExistsIffMembers ==
  /\ [](\A ch \in Channels :
          /\ \A r \in DOMAIN rooms[ch] : rooms[ch][r] # {}
          /\ DOMAIN roomLocks[ch] = DOMAIN rooms[ch])
  /\ [][ \A ch \in Channels : \A r \in ValidRoomIds :
           /\ (~MapHas(rooms[ch], r) /\ MapHas(rooms'[ch], r))
              => \E ws \in rooms'[ch][r] :
                   rooms'[ch][r] = {ws} /\ meta'[ws].roomId = r
           /\ (MapHas(rooms[ch], r) /\ ~MapHas(rooms'[ch], r))
              => /\ ~MapHas(roomLocks'[ch], r)
                 /\ \E ws \in rooms[ch][r] : meta'[ws].roomId # r ]_vars

\* C20 witness: the video manager holds no room and no lock entry, and an
\* open socket that is in no room was the first to join a room that has
\* since been deleted.
C20_Witness ==
  \E ws \in Conns :
    /\ chan[ws] = "video" /\ readyState[ws] = "OPEN"
    /\ meta[ws].isInitiator /\ meta[ws].roomId = NULL
    /\ rooms["video"] = EmptyMap /\ roomLocks["video"] = EmptyMap

\* C21: no lock entry of any manager is held in any state between two
\* callbacks, whatever the outcome of the join that took it (joined, already
\* a member, room-full), and no join is waiting for a lock to be released.
C21_LockReleased ==
  /\ \A ch \in Channels : \A r \in DOMAIN roomLocks[ch] : ~roomLocks[ch][r]
  /\ pendingJoins = {}

\* C21 witness: a join to a full room has just been refused with room-full,
\* the room's lock entry is there and is not held, and the joiner is open.
C21_Witness ==
  \E ws \in Conns : \E r \in ValidRoomIds :
    /\ chan[ws] # NULL /\ readyState[ws] = "OPEN"
    /\ BagIn(RoomFullFrame(ws), sent)
    /\ ws \notin Members(chan[ws], r)
    /\ Cardinality(Members(chan[ws], r)) = Options(chan[ws]).maxPeers
    /\ MapHas(roomLocks[chan[ws]], r) /\ ~roomLocks[chan[ws]][r]

\* The rooms of channel ch whose member set holds ws in the state record st.
RoomsIn(st, ch, ws) ==
  {r \in DOMAIN st.rooms[ch] : ws \in st.rooms[ch][r]}

\* C22: when an open member of room x joins another room y of its channel
\* and the join succeeds, the same callback takes it out of x, sends
\* peer-left for x once to every remaining member of x whose socket is open
\* where the manager notifies on leave (and to nobody where it does not),
\* deletes x if nobody remains, and leaves the socket a member of y alone.
C22_SwitchLeavesOldRoom ==
  \A ws \in Conns : \A x, y \in ValidRoomIds :
    (readyState[ws] = "OPEN" /\ x # y /\ RoomsOf(ws) = {x})
    => LET ch == chan[ws]
           s == After(ws, JoinMsg(y))
           rest == rooms[ch][x] \ {ws}
       IN (y \in RoomsIn(s, ch, ws))
          => /\ RoomsIn(s, ch, ws) = {y}
             /\ s.meta[ws].roomId = y
             /\ IF rest = {} THEN ~MapHas(s.rooms[ch], x)
                ELSE MapHas(s.rooms[ch], x) /\ s.rooms[ch][x] = rest
             /\ \A p \in Conns :
                  CopiesIn(PeerLeftFrame(p, x), s.sent)
                    = IF Options(ch).notifyOnLeave /\ p \in OpenPeers(Now, rest)
                      THEN 1 ELSE 0

\* C22 witness: a socket that shared r2 with a peer has just joined r1, where
\* a third socket was waiting: the peer, still in r2, was told peer-left, the
\* third socket was told peer-joined, and the socket is in r1 alone.
C22_Witness ==
  \E ws, p, q \in Conns :
    /\ chan[ws] # NULL /\ p # ws /\ q # ws /\ p # q
    /\ BagIn(JoinedFrame(ws, "r1", FALSE), sent)
    /\ BagIn(PeerLeftFrame(p, "r2"), sent)
    /\ BagIn(PeerJoinedFrame(q, "r1"), sent)
    /\ Members(chan[ws], "r1") = {ws, q}
    /\ Members(chan[ws], "r2") = {p}

\* C23: a socket that was accepted or has answered a probe since the last
\* tick is marked alive, and a tick of its channel's timer leaves a socket
\* that is marked alive as it was: same readyState, same room, same recorded
\* room id, same per-address set.  This holds in every reachable state, that
\* is after any number of ticks.
C23_ResponsiveSurvives ==
  /\ \A ws \in Conns :
       (readyState[ws] = "OPEN" /\ ticksSilent[ws] = 0) => meta[ws].isAlive
  /\ \A ch \in Channels :
       LET s == HeartbeatSweep(Now, ch, clients[ch])
       IN \A ws \in Conns :
            (InSeq(clients[ch], ws) /\ meta[ws].isAlive)
            => /\ s.readyState[ws] = readyState[ws]
               /\ RoomsIn(s, ch, ws) = RoomsOf(ws)
               /\ s.meta[ws].roomId = meta[ws].roomId
               /\ \A ip \in DOMAIN connectionsByIP :
                    ws \in connectionsByIP[ip]
                    => /\ MapHas(s.connectionsByIP, ip)
                       /\ ws \in s.connectionsByIP[ip]

\* C23 witness: two sockets shared a room through two ticks; one answered
\* the first probe and is open and in the room after the second tick, which
\* terminated the other and told the survivor peer-left.
C23_Witness ==
  \E ws, p \in Conns :
    /\ p # ws /\ chan[ws] # NULL /\ chan[p] = chan[ws]
    /\ readyState[ws] = "OPEN" /\ ticksSilent[ws] = 1 /\ RoomsOf(ws) # {}
    /\ readyState[p] = "CLOSING" /\ ticksSilent[p] = 2
    /\ \E r \in RoomsOf(ws) : BagIn(PeerLeftFrame(ws, r), sent)
    /\ \E ip \in DOMAIN connectionsByIP : ws \in connectionsByIP[ip]

\* C24: once the termination signal has arrived no step is a heartbeat tick
\* of either channel: no socket is counted a further unanswered probe and no
\* socket marked alive is marked not-alive.
C24_NoHeartbeatInDrain ==
  [][ phase # "running"
      => /\ \A ch \in Channels : ~HeartbeatTick(ch)
         /\ \A ws \in Conns :
              /\ ticksSilent'[ws] <= ticksSilent[ws]
              /\ meta[ws].isAlive => meta'[ws].isAlive ]_vars

\* C24 witness: during the drain a socket that was open at the signal has
\* an unanswered probe, which the next tick would have terminated it for,
\* and a socket accepted after the signal is open and was never probed.
C24_Witness ==
  /\ phase = "draining"
  /\ \E ws \in atSignal :
       ~meta[ws].isAlive /\ ticksSilent[ws] = 1 /\ ws \in closeSent
  /\ \E ws \in Conns \ atSignal :
       readyState[ws] = "OPEN" /\ meta[ws].isAlive /\ ticksSilent[ws] = 0

\* C25: the message handler runs for the frames of a socket in the order
\* they were received, one after the other: the frames handled are the first
\* frames on the wire in wire order, the frames waiting are the next ones in
\* wire order, and no join is left waiting for a later turn; the signals
\* forwarded to a socket from one sender are signals of that sender in the
\* order it sent them; and a join followed by a signal, from an open socket
\* that is in no room, to a room with one open member and a free place, is
\* acknowledged and the signal is then relayed to that member.
C25_ReceiptOrder ==
  /\ \A ws \in Conns :
       /\ \A i \in 1..Len(handled[ws]) : handled[ws][i] = i
       /\ Len(handled[ws]) + Len(inbox[ws]) = Len(wire[ws])
       /\ \A i \in 1..Len(inbox[ws]) :
            /\ inbox[ws][i].n = Len(handled[ws]) + i
            /\ inbox[ws][i].frame = wire[ws][inbox[ws][i].n]
  /\ pendingJoins = {}
  /\ \A p \in Conns : \A i, j \in 1..Len(heard[p]) :
       /\ wire[heard[p][i].from][heard[p][i].n].kind = "signal"
       /\ (i < j /\ heard[p][i].from = heard[p][j].from)
          => heard[p][i].n < heard[p][j].n
  /\ \A ws, p \in Conns : \A r \in ValidRoomIds :
     \A t \in SignalTypes : \A d \in ValidData :
       ( /\ readyState[ws] = "OPEN" /\ readyState[p] = "OPEN" /\ p # ws
         /\ chan[p] = chan[ws] /\ RoomsOf(ws) = {}
         /\ meta[ws].roomId = NULL
         /\ Members(chan[ws], r) = {p}
         /\ Options(chan[ws]).maxPeers > 1 )
       => LET s1 == After(ws, JoinMsg(r))
              s2 == Receive([s1 EXCEPT !.sent = EmptyBag], chan[ws], ws,
                            SignalMsg(t, d), clock)
          IN /\ \E b \in BOOLEAN : BagIn(JoinedFrame(ws, r, b), s1.sent)
             /\ s1.pendingJoins = {}
             /\ s2.sent = SetToBag({SignalFrame(p, t, d)})

\* C25 witness: a client put a join and two signals on the wire; all three
\* were handled and its room peer was forwarded the two signals, the
\* second and the third frame of the wire, in that order.
C25_Witness ==
  \E ws, p \in Conns :
    /\ p # ws
    /\ Len(wire[ws]) = 3 /\ wire[ws][1].kind = "join"
    /\ wire[ws][2].signalType = "offer" /\ wire[ws][3].signalType = "answer"
    /\ handled[ws] = << 1, 2, 3 >>
    /\ heard[p] = << [from |-> ws, n |-> 2], [from |-> ws, n |-> 3] >>

\* C26: a join by an open member of room x to another room y that is
\* answered room-full or with the room-limit error leaves the socket a
\* member of x, recorded in x, and sends no peer-left.
C26_RefusedJoinKeepsMembership ==
  \A ws \in Conns : \A x, y \in ValidRoomIds :
    (readyState[ws] = "OPEN" /\ x # y /\ RoomsOf(ws) = {x})
    => LET ch == chan[ws]
           s == After(ws, JoinMsg(y))
       IN ( \/ BagIn(RoomFullFrame(ws), s.sent)
            \/ BagIn(ErrorFrame(ws, "Maximum room limit reached"), s.sent) )
          => /\ RoomsIn(s, ch, ws) = {x}
             /\ s.meta[ws].roomId = x
             /\ \A f \in BagToSet(s.sent) : f.type # "peer-left"

\* C27: in every video room that holds two sockets, exactly one of the two
\* was told isInitiator true by the joined frame of its latest join, which
\* is the value the join recorded in its meta.
C27_OneInitiatorPerPair ==
  \A r \in DOMAIN rooms["video"] :
    Cardinality(rooms["video"][r]) = 2
    => Cardinality({ws \in rooms["video"][r] : meta[ws].isInitiator}) = 1

\* C28: for every socket and every room of its channel, the room id
\* recorded in the socket's meta is that room exactly when the socket is in
\* the room's member set.
C28_RecordedRoomIsMembership ==
  \A ws \in Conns : \A r \in ValidRoomIds :
    chan[ws] # NULL
    => (meta[ws].roomId = r <=> ws \in Members(chan[ws], r))

\* C29: every step that sends peer-left for a room to a socket takes a
\* socket out of that room's member set.
C29_PeerLeftOnlyOnRemoval ==
  [][ \A f \in BagToSet(sent') :
        f.type = "peer-left"
        => \E ws \in Members(chan[f.to], f.roomId) :
             ~MapHas(rooms'[chan[f.to]], f.roomId)
             \/ ws \notin rooms'[chan[f.to]][f.roomId] ]_vars

\* C30: once both servers are closed no socket is open, and no socket whose
\* close event has been handled is in a room or in a per-address set; this
\* includes the sockets whose upgrade was accepted between the termination
\* signal and the closing of the servers.
C30_NothingSurvivesClose ==
  phase = "closed"
  => \A ws \in Conns :
       /\ readyState[ws] # "OPEN"
       /\ readyState[ws] = "CLOSED"
          => /\ RoomsOf(ws) = {}
             /\ \A ip \in DOMAIN connectionsByIP : ws \notin connectionsByIP[ip]

====
